---- MODULE Spec2Model ----
(***************************************************************************)
(* Model of src/main.py: the SavingsAccount ledger (accounts, transaction  *)
(* logs, the single session slot, the account-number counter) and the      *)
(* login / logout branches of main().  Spec drives the ledger by an        *)
(* arbitrary caller; MainSpec drives it by the console loop of main(),     *)
(* whose position is pc.                                                   *)
(*                                                                         *)
(* Account numbers are ten-digit integers, beyond the range of the model   *)
(* checker's integers.  A number n is represented by the pair <<hi, lo>>   *)
(* with n = hi * 100000 + lo and 0 <= lo <= 99999, compared               *)
(* lexicographically.  Python's None is the empty tuple.                   *)
(* Amounts are Python floats in the source; the model uses integers.       *)
(***************************************************************************)
EXTENDS Integers, Sequences, FiniteSets, TLC

VARIABLES savings_accounts, transaction_history, current_account_number,
          account_counter, clock, issued, last, pc

vars == <<savings_accounts, transaction_history, current_account_number,
          account_counter, clock, issued, last, pc>>

\* ---------------------------------------------------------------- bounds
MaxAmount == 1
MaxLog == 3
MaxClock == 1

\* ------------------------------------------------------------ input sets
Amounts == (0 - MaxAmount) .. MaxAmount
Names == {"Alice", "Bob"}
\* 999999999, 1000000000, 5432106789, 9999999999, 10000000000
NumberSamples == {<<9999, 99999>>, <<10000, 0>>, <<54321, 6789>>,
                  <<99999, 99999>>, <<100000, 0>>}

None == <<>>

NumLE(a, b) == a[1] < b[1] \/ (a[1] = b[1] /\ a[2] <= b[2])

\* randint(1000000000, 9999999999), main.py line 61
RandLow == <<10000, 0>>
RandHigh == <<99999, 99999>>
randint_NoUpperBound(a, b) == {n \in NumberSamples : NumLE(a, n)}

randint(a, b) == {n \in NumberSamples : NumLE(a, n) /\ NumLE(n, b)}

\* datetime.now(): the reading of the wall clock
now == clock

\* ------------------------------------------------------------------ Init
Init ==
    /\ savings_accounts = <<>>
    /\ transaction_history = <<>>
    /\ current_account_number = None
    /\ account_counter \in randint(RandLow, RandHigh)
    /\ clock = 0
    /\ issued = {}
    /\ last = [op |-> "init", args |-> <<>>, ret |-> None]
    /\ pc = "menu"

\* ------------------------------------------------------- pure operations
generate_account_number == account_counter

retrieve_account(account_number) ==
    IF account_number \in DOMAIN savings_accounts
    THEN savings_accounts[account_number]
    ELSE None

view_account_balance ==
    IF current_account_number \in DOMAIN savings_accounts
    THEN savings_accounts[current_account_number].balance
    ELSE None

view_transaction_history ==
    IF current_account_number \in DOMAIN transaction_history
    THEN transaction_history[current_account_number]
    ELSE <<>>

\* dict[key] = value
DictSet(d, k, v) == [x \in DOMAIN d \cup {k} |-> IF x = k THEN v ELSE d[x]]

\* --------------------------------------------------------------- actions
open_new_account_NoHistory(name, initial_deposit) ==
    LET account_number == generate_account_number IN
    /\ savings_accounts' = DictSet(savings_accounts, account_number,
                               [name |-> name, balance |-> initial_deposit])
    /\ issued' = issued \cup {account_number}
    /\ last' = [op |-> "open_new_account", args |-> <<name, initial_deposit>>,
                ret |-> account_number]
    /\ UNCHANGED <<transaction_history, current_account_number, account_counter, clock>>

open_new_account_KeepsExisting(name, initial_deposit) ==
    LET account_number == generate_account_number IN
    /\ savings_accounts' =
          IF account_number \in DOMAIN savings_accounts THEN savings_accounts
          ELSE DictSet(savings_accounts, account_number,
                       [name |-> name, balance |-> initial_deposit])
    /\ transaction_history' =
          IF account_number \in DOMAIN transaction_history THEN transaction_history
          ELSE DictSet(transaction_history, account_number,
                  <<[type |-> "Opening", amount |-> initial_deposit, timestamp |-> now]>>)
    /\ issued' = issued \cup {account_number}
    /\ last' = [op |-> "open_new_account", args |-> <<name, initial_deposit>>,
                ret |-> account_number]
    /\ UNCHANGED <<current_account_number, account_counter, clock>>

open_new_account(name, initial_deposit) ==
    LET account_number == generate_account_number IN
    /\ savings_accounts' = DictSet(savings_accounts, account_number,
                               [name |-> name, balance |-> initial_deposit])
    /\ transaction_history' = DictSet(transaction_history, account_number,
           <<[type |-> "Opening", amount |-> initial_deposit, timestamp |-> now]>>)
    /\ issued' = issued \cup {account_number}
    /\ last' = [op |-> "open_new_account", args |-> <<name, initial_deposit>>,
                ret |-> account_number]
    /\ UNCHANGED <<current_account_number, account_counter, clock>>

deposit_NoRecord(amount_deposit) ==
    IF current_account_number \in DOMAIN savings_accounts
    THEN /\ savings_accounts' = [savings_accounts EXCEPT
                ![current_account_number].balance = @ + amount_deposit]
         /\ last' = [op |-> "deposit", args |-> <<amount_deposit>>, ret |-> TRUE]
         /\ UNCHANGED <<transaction_history, current_account_number,
                        account_counter, clock, issued>>
    ELSE /\ last' = [op |-> "deposit", args |-> <<amount_deposit>>, ret |-> FALSE]
         /\ UNCHANGED <<savings_accounts, transaction_history,
                        current_account_number, account_counter, clock, issued>>

deposit_Prepends(amount_deposit) ==
    IF current_account_number \in DOMAIN savings_accounts
    THEN /\ Len(transaction_history[current_account_number]) < MaxLog
         /\ savings_accounts' = [savings_accounts EXCEPT
                ![current_account_number].balance = @ + amount_deposit]
         /\ transaction_history' = [transaction_history EXCEPT
                ![current_account_number] =
                    <<[type |-> "Deposit", amount |-> amount_deposit, timestamp |-> now]>> \o @]
         /\ last' = [op |-> "deposit", args |-> <<amount_deposit>>, ret |-> TRUE]
         /\ UNCHANGED <<current_account_number, account_counter, clock, issued>>
    ELSE /\ last' = [op |-> "deposit", args |-> <<amount_deposit>>, ret |-> FALSE]
         /\ UNCHANGED <<savings_accounts, transaction_history,
                        current_account_number, account_counter, clock, issued>>

deposit(amount_deposit) ==
    IF current_account_number \in DOMAIN savings_accounts
    THEN /\ Len(transaction_history[current_account_number]) < MaxLog
         /\ savings_accounts' = [savings_accounts EXCEPT
                ![current_account_number].balance = @ + amount_deposit]
         /\ transaction_history' = [transaction_history EXCEPT
                ![current_account_number] = Append(@,
                    [type |-> "Deposit", amount |-> amount_deposit, timestamp |-> now])]
         /\ last' = [op |-> "deposit", args |-> <<amount_deposit>>, ret |-> TRUE]
         /\ UNCHANGED <<current_account_number, account_counter, clock, issued>>
    ELSE /\ last' = [op |-> "deposit", args |-> <<amount_deposit>>, ret |-> FALSE]
         /\ UNCHANGED <<savings_accounts, transaction_history,
                        current_account_number, account_counter, clock, issued>>

withdraw_NoFundsCheck(amount_withdraw) ==
    IF current_account_number \in DOMAIN savings_accounts
    THEN /\ Len(transaction_history[current_account_number]) < MaxLog
         /\ savings_accounts' = [savings_accounts EXCEPT
                ![current_account_number].balance = @ - amount_withdraw]
         /\ transaction_history' = [transaction_history EXCEPT
                ![current_account_number] = Append(@,
                    [type |-> "Withdrawal", amount |-> amount_withdraw, timestamp |-> now])]
         /\ last' = [op |-> "withdraw", args |-> <<amount_withdraw>>, ret |-> TRUE]
         /\ UNCHANGED <<current_account_number, account_counter, clock, issued>>
    ELSE /\ last' = [op |-> "withdraw", args |-> <<amount_withdraw>>, ret |-> FALSE]
         /\ UNCHANGED <<savings_accounts, transaction_history,
                        current_account_number, account_counter, clock, issued>>

withdraw_ReportsSuccess(amount_withdraw) ==
    IF /\ current_account_number \in DOMAIN savings_accounts
       /\ savings_accounts[current_account_number].balance >= amount_withdraw
    THEN /\ Len(transaction_history[current_account_number]) < MaxLog
         /\ savings_accounts' = [savings_accounts EXCEPT
                ![current_account_number].balance = @ - amount_withdraw]
         /\ transaction_history' = [transaction_history EXCEPT
                ![current_account_number] = Append(@,
                    [type |-> "Withdrawal", amount |-> amount_withdraw, timestamp |-> now])]
         /\ last' = [op |-> "withdraw", args |-> <<amount_withdraw>>, ret |-> TRUE]
         /\ UNCHANGED <<current_account_number, account_counter, clock, issued>>
    ELSE /\ last' = [op |-> "withdraw", args |-> <<amount_withdraw>>, ret |-> TRUE]
         /\ UNCHANGED <<savings_accounts, transaction_history,
                        current_account_number, account_counter, clock, issued>>

withdraw_StrictCheck(amount_withdraw) ==
    IF /\ current_account_number \in DOMAIN savings_accounts
       /\ savings_accounts[current_account_number].balance > amount_withdraw
    THEN /\ Len(transaction_history[current_account_number]) < MaxLog
         /\ savings_accounts' = [savings_accounts EXCEPT
                ![current_account_number].balance = @ - amount_withdraw]
         /\ transaction_history' = [transaction_history EXCEPT
                ![current_account_number] = Append(@,
                    [type |-> "Withdrawal", amount |-> amount_withdraw, timestamp |-> now])]
         /\ last' = [op |-> "withdraw", args |-> <<amount_withdraw>>, ret |-> TRUE]
         /\ UNCHANGED <<current_account_number, account_counter, clock, issued>>
    ELSE /\ last' = [op |-> "withdraw", args |-> <<amount_withdraw>>, ret |-> FALSE]
         /\ UNCHANGED <<savings_accounts, transaction_history,
                        current_account_number, account_counter, clock, issued>>

withdraw(amount_withdraw) ==
    IF /\ current_account_number \in DOMAIN savings_accounts
       /\ savings_accounts[current_account_number].balance >= amount_withdraw
    THEN /\ Len(transaction_history[current_account_number]) < MaxLog
         /\ savings_accounts' = [savings_accounts EXCEPT
                ![current_account_number].balance = @ - amount_withdraw]
         /\ transaction_history' = [transaction_history EXCEPT
                ![current_account_number] = Append(@,
                    [type |-> "Withdrawal", amount |-> amount_withdraw, timestamp |-> now])]
         /\ last' = [op |-> "withdraw", args |-> <<amount_withdraw>>, ret |-> TRUE]
         /\ UNCHANGED <<current_account_number, account_counter, clock, issued>>
    ELSE /\ last' = [op |-> "withdraw", args |-> <<amount_withdraw>>, ret |-> FALSE]
         /\ UNCHANGED <<savings_accounts, transaction_history,
                        current_account_number, account_counter, clock, issued>>

Login_NoSessionCheck(account_number) ==
    IF retrieve_account(account_number) # None
    THEN /\ current_account_number' = account_number
         /\ last' = [op |-> "login", args |-> <<account_number>>,
                     ret |-> "Account accessed successfully!"]
         /\ UNCHANGED <<savings_accounts, transaction_history,
                        account_counter, clock, issued>>
    ELSE /\ last' = [op |-> "login", args |-> <<account_number>>,
                     ret |-> "Account not found."]
         /\ UNCHANGED <<savings_accounts, transaction_history,
                        current_account_number, account_counter, clock, issued>>

Login_NoLookup(account_number) ==
    IF current_account_number = None
    THEN /\ current_account_number' = account_number
         /\ last' = [op |-> "login", args |-> <<account_number>>,
                     ret |-> "Account accessed successfully!"]
         /\ UNCHANGED <<savings_accounts, transaction_history,
                        account_counter, clock, issued>>
    ELSE /\ last' = [op |-> "login", args |-> <<account_number>>,
                     ret |-> "You are already logged in"]
         /\ UNCHANGED <<savings_accounts, transaction_history,
                        current_account_number, account_counter, clock, issued>>

\* main(), choice "2"
Login(account_number) ==
    IF current_account_number = None
    THEN IF retrieve_account(account_number) # None
         THEN /\ current_account_number' = account_number
              /\ last' = [op |-> "login", args |-> <<account_number>>,
                          ret |-> "Account accessed successfully!"]
              /\ UNCHANGED <<savings_accounts, transaction_history,
                             account_counter, clock, issued>>
         ELSE /\ last' = [op |-> "login", args |-> <<account_number>>,
                          ret |-> "Account not found."]
              /\ UNCHANGED <<savings_accounts, transaction_history,
                             current_account_number, account_counter, clock, issued>>
    ELSE /\ last' = [op |-> "login", args |-> <<account_number>>,
                     ret |-> "You are already logged in"]
         /\ UNCHANGED <<savings_accounts, transaction_history,
                        current_account_number, account_counter, clock, issued>>

Logout_KeepsSession ==
    /\ last' = [op |-> "logout", args |-> <<>>, ret |-> "Logged out successfully!"]
    /\ UNCHANGED <<savings_accounts, transaction_history, current_account_number,
                   account_counter, clock, issued>>

\* main(), sub_choice "5"
Logout ==
    /\ current_account_number' = None
    /\ last' = [op |-> "logout", args |-> <<>>, ret |-> "Logged out successfully!"]
    /\ UNCHANGED <<savings_accounts, transaction_history, account_counter,
                   clock, issued>>

\* the wall clock advances between calls
Tick ==
    /\ clock < MaxClock
    /\ clock' = clock + 1
    /\ UNCHANGED <<savings_accounts, transaction_history, current_account_number,
                   account_counter, issued, last>>

\* main(), sub_choice "3"
ViewBalance ==
    /\ last' = [op |-> "view_account_balance", args |-> <<>>,
                ret |-> view_account_balance]
    /\ UNCHANGED <<savings_accounts, transaction_history, current_account_number,
                   account_counter, clock, issued>>

\* main(), sub_choice "4"
ViewHistory ==
    /\ last' = [op |-> "view_transaction_history", args |-> <<>>,
                ret |-> view_transaction_history]
    /\ UNCHANGED <<savings_accounts, transaction_history, current_account_number,
                   account_counter, clock, issued>>

\* ------------------------------------ the ledger under an arbitrary caller
OpenAccountStep ==
    \E name \in Names, d \in Amounts : open_new_account(name, d) /\ UNCHANGED pc
DepositStep == \E a \in Amounts : deposit(a) /\ UNCHANGED pc
WithdrawStep == \E a \in Amounts : withdraw(a) /\ UNCHANGED pc
LoginStep == \E n \in NumberSamples : Login(n) /\ UNCHANGED pc
LogoutStep == Logout /\ UNCHANGED pc
ViewBalanceStep == ViewBalance /\ UNCHANGED pc
ViewHistoryStep == ViewHistory /\ UNCHANGED pc
TickStep == Tick /\ UNCHANGED pc

Next ==
    \/ OpenAccountStep
    \/ DepositStep
    \/ WithdrawStep
    \/ LoginStep
    \/ LogoutStep
    \/ ViewBalanceStep
    \/ ViewHistoryStep
    \/ TickStep

Spec == Init /\ [][Next]_vars

\* ------------- the same caller, passing only amounts a validating caller would
NonNegativeAmounts == {a \in Amounts : a >= 0}
PositiveAmounts == {a \in Amounts : a > 0}

ValidOpenAccountStep ==
    \E name \in Names, d \in NonNegativeAmounts :
        open_new_account(name, d) /\ UNCHANGED pc
ValidDepositStep == \E a \in PositiveAmounts : deposit(a) /\ UNCHANGED pc
ValidWithdrawStep == \E a \in PositiveAmounts : withdraw(a) /\ UNCHANGED pc

ValidNext ==
    \/ ValidOpenAccountStep
    \/ ValidDepositStep
    \/ ValidWithdrawStep
    \/ LoginStep
    \/ LogoutStep
    \/ ViewBalanceStep
    \/ ViewHistoryStep
    \/ TickStep

ValidSpec == Init /\ [][ValidNext]_vars

\* ------------------------------------------- the console loop of main()
\* pc = "menu":    at the top-level prompt (line 170)
\* pc = "while":   at the test of the logged-in loop (line 201)
\* pc = "submenu": at the logged-in prompt (line 210)
\* pc = "exit":    the process has ended
\* a branch that only prints
Prints(what, message) ==
    /\ last' = [op |-> what, args |-> <<>>, ret |-> message]
    /\ UNCHANGED <<savings_accounts, transaction_history, current_account_number,
                   account_counter, clock, issued>>

MainOpenAccount ==
    /\ pc = "menu"
    /\ \E name \in Names, d \in Amounts : open_new_account(name, d)
    /\ pc' = "while"

MainLogin ==
    /\ pc = "menu"
    /\ \E n \in NumberSamples : Login(n)
    /\ pc' = "while"

MainQuit ==
    /\ pc = "menu"
    /\ pc' = "exit"
    /\ Prints("quit", "Quitting the program.")

MainInvalid ==
    /\ pc = "menu"
    /\ pc' = "while"
    /\ Prints("invalid", "Invalid choice. Please enter a valid option.")

\* float(input(...)) or int(input(...)) raises ValueError, which nothing catches
MainBadInput ==
    /\ pc \in {"menu", "submenu"}
    /\ pc' = "exit"
    /\ Prints("ValueError", "Traceback")

MainWhile ==
    /\ pc = "while"
    /\ pc' = IF current_account_number # None THEN "submenu" ELSE "menu"
    /\ UNCHANGED <<savings_accounts, transaction_history, current_account_number,
                   account_counter, clock, issued, last>>

SubDeposit_Breaks ==
    /\ pc = "submenu"
    /\ \E a \in Amounts : deposit(a)
    /\ pc' = "menu"

SubDeposit ==
    /\ pc = "submenu"
    /\ \E a \in Amounts : deposit(a)
    /\ pc' = "while"

SubWithdraw ==
    /\ pc = "submenu"
    /\ \E a \in Amounts : withdraw(a)
    /\ pc' = "while"

SubViewBalance ==
    /\ pc = "submenu"
    /\ ViewBalance
    /\ pc' = "while"

SubViewHistory ==
    /\ pc = "submenu"
    /\ ViewHistory
    /\ pc' = "while"

SubLogout ==
    /\ pc = "submenu"
    /\ Logout
    /\ pc' = "menu"

SubQuit ==
    /\ pc = "submenu"
    /\ pc' = "exit"
    /\ Prints("quit", "Quitting the program.")

SubInvalid ==
    /\ pc = "submenu"
    /\ pc' = "while"
    /\ Prints("invalid", "Invalid choice. Please enter a valid option.")

MainTick ==
    /\ pc # "exit"
    /\ Tick
    /\ UNCHANGED pc

MainNext ==
    \/ MainOpenAccount
    \/ MainLogin
    \/ MainQuit
    \/ MainInvalid
    \/ MainBadInput
    \/ MainWhile
    \/ SubDeposit
    \/ SubWithdraw
    \/ SubViewBalance
    \/ SubViewHistory
    \/ SubLogout
    \/ SubQuit
    \/ SubInvalid
    \/ MainTick

MainSpec == Init /\ [][MainNext]_vars

\* ================================================================ claims
RECURSIVE SumKind(_, _)
\* sum of the amounts of the records of one kind in a log
SumKind(log, kind) ==
    IF log = <<>> THEN 0
    ELSE (IF Head(log).type = kind THEN Head(log).amount ELSE 0)
         + SumKind(Tail(log), kind)

IsPrefix(s, t) == Len(s) <= Len(t) /\ SubSeq(t, 1, Len(s)) = s

HasKind(log, kind) == \E i \in 1..Len(log) : log[i].type = kind /\ log[i].amount # 0

\* C1: in every reachable state the balance of every account equals the
\* amount of the Opening record of its log plus the sum of its Deposit
\* records minus the sum of its Withdrawal records.
C1_BalanceMatchesLog ==
    \A n \in DOMAIN savings_accounts :
        /\ n \in DOMAIN transaction_history
        /\ savings_accounts[n].balance =
              SumKind(transaction_history[n], "Opening")
              + SumKind(transaction_history[n], "Deposit")
              - SumKind(transaction_history[n], "Withdrawal")

C1_Witness ==
    \E n \in DOMAIN savings_accounts :
        /\ HasKind(transaction_history[n], "Opening")
        /\ HasKind(transaction_history[n], "Deposit")
        /\ HasKind(transaction_history[n], "Withdrawal")

\* C2: the balance of every account is non-negative in every reachable
\* state, whatever amounts OpenAccount, Deposit and Withdraw are given.
C2_BalanceNonNegative ==
    \A n \in DOMAIN savings_accounts : savings_accounts[n].balance >= 0

\* C3: with an active session, a Withdraw of more than the active account's
\* balance returns False and leaves every balance, every log and the active
\* account number unchanged.
C3_OverdrawRejected ==
    [][\A a \in Amounts :
          ( /\ current_account_number # None
            /\ current_account_number \in DOMAIN savings_accounts
            /\ a > savings_accounts[current_account_number].balance
            /\ withdraw(a) )
          => /\ last'.ret = FALSE
             /\ UNCHANGED <<savings_accounts, transaction_history,
                            current_account_number>>]_vars

C3_Witness ==
    /\ last.op = "withdraw"
    /\ last.ret = FALSE
    /\ current_account_number \in DOMAIN savings_accounts
    /\ last.args[1] > savings_accounts[current_account_number].balance

\* C4: with no active session, Deposit and Withdraw return False for every
\* amount and leave the accounts, the logs and the session slot unchanged.
C4_NoSessionRejected ==
    [][\A a \in Amounts :
          (current_account_number = None /\ (deposit(a) \/ withdraw(a)))
          => /\ last'.ret = FALSE
             /\ UNCHANGED <<savings_accounts, transaction_history,
                            current_account_number>>]_vars

C4_Witness ==
    /\ last.op \in {"deposit", "withdraw"}
    /\ last.ret = FALSE
    /\ current_account_number = None
    /\ \E n \in DOMAIN savings_accounts :
          savings_accounts[n].balance >= last.args[1]

\* C5: every OpenAccount call returns a number different from the number
\* returned by every earlier OpenAccount call on the same ledger.
C5_FreshAccountNumber ==
    [][\A name \in Names, d \in Amounts :
          open_new_account(name, d) => last'.ret \notin issued]_vars

InClaimedRange(n) == NumLE(<<10000, 0>>, n) /\ NumLE(n, <<99999, 99999>>)

C7_LoginWhileLoggedIn ==
    [][\A n \in NumberSamples :
          (current_account_number # None /\ Login(n))
          => /\ last'.ret = "You are already logged in"
             /\ UNCHANGED <<current_account_number, savings_accounts,
                            transaction_history>>]_vars

C7_Witness ==
    /\ last.op = "login"
    /\ last.ret = "You are already logged in"
    /\ current_account_number # None

\* C8: in every reachable state the active account number is null or a key
\* of the account mapping.
C8_SessionRefersToAccount ==
    current_account_number = None
    \/ current_account_number \in DOMAIN savings_accounts

C8_Witness ==
    /\ current_account_number # None
    /\ last.op = "login"
    /\ last.ret = "Account accessed successfully!"

\* C9: in every reachable state the account numbers that have a transaction
\* log are exactly the account numbers that have an account record.
C9_SameKeys == DOMAIN transaction_history = DOMAIN savings_accounts

C9_Witness ==
    /\ DOMAIN savings_accounts # {}
    /\ last.op = "open_new_account"

\* C10: every transaction log is append-only: after any single operation
\* the log before it is a prefix of the log after it, and the log has grown
\* by at most one record.
C10_AppendOnly ==
    [][\A n \in DOMAIN transaction_history :
          /\ n \in DOMAIN transaction_history'
          /\ IsPrefix(transaction_history[n], transaction_history'[n])
          /\ Len(transaction_history'[n]) <= Len(transaction_history[n]) + 1]_vars

WellOrdered(log) ==
    /\ Len(log) >= 1
    /\ log[1].type = "Opening"
    /\ \A i \in 2..Len(log) : log[i].type \in {"Deposit", "Withdrawal"}

\* the log after the step is the log before it plus one record of this kind
\* and amount at the end
Appended(before, after, kind, amount) ==
    /\ Len(after) = Len(before) + 1
    /\ SubSeq(after, 1, Len(before)) = before
    /\ after[Len(after)].type = kind
    /\ after[Len(after)].amount = amount

\* C11: ViewTransactionHistory returns the active account's records in the
\* order they were appended: every log is non-empty and starts with its only
\* Opening record, every successful Deposit or Withdraw puts its record at
\* the end, and with no session the result is the empty sequence.
C11_HistoryInAppendOrder ==
    [][ /\ \A n \in DOMAIN transaction_history' :
              WellOrdered(transaction_history'[n])
        /\ view_transaction_history' =
              IF current_account_number' = None THEN <<>>
              ELSE transaction_history'[current_account_number']
        /\ \A a \in Amounts :
              (deposit(a) /\ last'.ret = TRUE)
              => Appended(transaction_history[current_account_number],
                          view_transaction_history', "Deposit", a)
        /\ \A a \in Amounts :
              (withdraw(a) /\ last'.ret = TRUE)
              => Appended(transaction_history[current_account_number],
                          view_transaction_history', "Withdrawal", a)
        /\ ViewHistory => last'.ret = view_transaction_history ]_vars

C11_Witness ==
    /\ last.op = "view_transaction_history"
    /\ Len(last.ret) = 3
    /\ last.ret[2].type = "Withdrawal"
    /\ last.ret[3].type = "Deposit"

\* C12: the holder name stored under an account number never changes once
\* the account exists, whatever operation follows.
C12_NameImmutable ==
    [][\A n \in DOMAIN savings_accounts :
          /\ n \in DOMAIN savings_accounts'
          /\ savings_accounts'[n].name = savings_accounts[n].name]_vars

\* C13: Logout leaves the session slot null and changes no account and no
\* log; a Logout directly after a Logout yields the identical state.
C13_LogoutIdempotent ==
    [][Logout =>
          /\ current_account_number' = None
          /\ UNCHANGED <<savings_accounts, transaction_history>>
          /\ (last.op = "logout" => UNCHANGED vars)]_vars

C13_Witness ==
    /\ last.op = "logout"
    /\ current_account_number = None
    /\ \E n \in DOMAIN transaction_history : Len(transaction_history[n]) > 1

\* C14: the session starts LoggedOut; from LoggedOut, Login(n) succeeds and
\* sets the active number to n exactly when n is a key of the accounts, and
\* otherwise fails and stays LoggedOut; the only way out of LoggedIn is
\* Logout; Login changes no account and no log.
C14_SessionMachine ==
    /\ current_account_number = None
    /\ [][ /\ \A n \in NumberSamples :
                 (current_account_number = None /\ Login(n))
                 => IF n \in DOMAIN savings_accounts
                    THEN /\ current_account_number' = n
                         /\ last'.ret = "Account accessed successfully!"
                    ELSE /\ current_account_number' = None
                         /\ last'.ret = "Account not found."
           /\ \A n \in NumberSamples :
                 Login(n) => UNCHANGED <<savings_accounts, transaction_history>>
           /\ (current_account_number # None
               /\ current_account_number' # current_account_number)
              => (Logout /\ current_account_number' = None) ]_vars

C14_Witness ==
    /\ last.op = "login"
    /\ last.ret = "Account not found."
    /\ current_account_number = None
    /\ DOMAIN savings_accounts # {}

\* C15: every Deposit or Withdrawal record has an amount > 0, and every
\* Opening record has the initial deposit its OpenAccount call was given.
C15_RecordAmounts ==
    /\ \A n \in DOMAIN transaction_history :
          \A i \in 1..Len(transaction_history[n]) :
              transaction_history[n][i].type \in {"Deposit", "Withdrawal"}
              => transaction_history[n][i].amount > 0
    /\ last.op = "open_new_account"
       => transaction_history[last.ret][1].amount = last.args[2]

\* C16: with an active session, a Withdraw of any amount up to and including
\* the balance returns True, lowers the active balance by exactly the amount,
\* appends one Withdrawal record of that amount and keeps the session.
C16_WithdrawWithinBalance ==
    [][\A a \in Amounts :
          ( /\ current_account_number \in DOMAIN savings_accounts
            /\ a <= savings_accounts[current_account_number].balance
            /\ withdraw(a) )
          => /\ last'.ret = TRUE
             /\ current_account_number' = current_account_number
             /\ savings_accounts'[current_account_number].balance =
                   savings_accounts[current_account_number].balance - a
             /\ Appended(transaction_history[current_account_number],
                         transaction_history'[current_account_number],
                         "Withdrawal", a)]_vars

C16_Witness ==
    /\ last.op = "withdraw"
    /\ last.ret = TRUE
    /\ last.args[1] > 0
    /\ current_account_number \in DOMAIN savings_accounts
    /\ savings_accounts[current_account_number].balance = 0

\* C17: with an active session, Deposit returns True, raises the active
\* balance by exactly the amount, appends one Deposit record of that amount,
\* keeps the active number and the holder name, and ViewBalance right after
\* returns the old balance plus the amount.
C17_DepositSucceeds ==
    [][\A a \in Amounts :
          (current_account_number # None /\ deposit(a))
          => /\ last'.ret = TRUE
             /\ current_account_number' = current_account_number
             /\ savings_accounts'[current_account_number].balance =
                   savings_accounts[current_account_number].balance + a
             /\ savings_accounts'[current_account_number].name =
                   savings_accounts[current_account_number].name
             /\ Appended(transaction_history[current_account_number],
                         transaction_history'[current_account_number],
                         "Deposit", a)
             /\ view_account_balance' =
                   savings_accounts[current_account_number].balance + a]_vars

C17_Witness ==
    /\ last.op = "deposit"
    /\ last.ret = TRUE
    /\ last.args[1] > 0
    /\ view_account_balance > last.args[1]

\* C18: OpenAccount(name, d) succeeds from any state: the account under the
\* returned number has that name and balance d, its log is exactly one
\* Opening record of amount d, RetrieveAccount of the number finds the
\* account, and the active account number is as before.
C18_OpenAccountEffect ==
    [][ /\ \A name \in Names, d \in Amounts : ENABLED open_new_account(name, d)
        /\ \A name \in Names, d \in Amounts :
              open_new_account(name, d)
              => \E n \in NumberSamples :
                    /\ n = last'.ret
                    /\ n \in DOMAIN savings_accounts'
                    /\ savings_accounts'[n] = [name |-> name, balance |-> d]
                    /\ n \in DOMAIN transaction_history'
                    /\ Len(transaction_history'[n]) = 1
                    /\ transaction_history'[n][1].type = "Opening"
                    /\ transaction_history'[n][1].amount = d
                    /\ retrieve_account(n)' = [name |-> name, balance |-> d]
                    /\ current_account_number' = current_account_number ]_vars

C18_Witness ==
    /\ last.op = "open_new_account"
    /\ last.args[1] = "Bob"
    /\ current_account_number = last.ret
    /\ clock > transaction_history[last.ret][1].timestamp

\* C19: when every initial deposit is >= 0 and every deposited or withdrawn
\* amount is > 0, every balance is >= 0 in every reachable state, a Withdraw
\* never increases and a Deposit never decreases the active balance.
C19_ValidAmountsKeepBalance ==
    [][ /\ \A n \in DOMAIN savings_accounts' : savings_accounts'[n].balance >= 0
        /\ \A a \in PositiveAmounts :
              (current_account_number # None /\ withdraw(a))
              => savings_accounts'[current_account_number].balance
                    <= savings_accounts[current_account_number].balance
        /\ \A a \in PositiveAmounts :
              (current_account_number # None /\ deposit(a))
              => savings_accounts'[current_account_number].balance
                    >= savings_accounts[current_account_number].balance ]_vars

C19_Witness ==
    /\ last.op = "withdraw"
    /\ last.ret = TRUE
    /\ view_transaction_history # <<>>
    /\ view_transaction_history[1].amount = 0
    /\ view_account_balance = 0

\* C20: in the console loop, OpenAccount and Login are never executed while
\* a session is active: the top-level menu is offered only when logged out,
\* the "already logged in" branch is never taken, and during a session the
\* account it refers to is not replaced.
C20_MenusSeparated ==
    [][ /\ pc' = "menu" => current_account_number' = None
        /\ \A name \in Names, d \in Amounts :
              open_new_account(name, d) => current_account_number = None
        /\ \A n \in NumberSamples : Login(n) => current_account_number = None
        /\ last'.op = "login" => last'.ret # "You are already logged in"
        /\ current_account_number # None
           => /\ savings_accounts'[current_account_number].name =
                    savings_accounts[current_account_number].name
              /\ IsPrefix(transaction_history[current_account_number],
                          transaction_history'[current_account_number]) ]_vars

C20_Witness ==
    /\ pc = "submenu"
    /\ current_account_number # None
    /\ last.op = "deposit"
    /\ last.ret = TRUE

====
